---- MODULE Spec2Model ----
(***************************************************************************)
(* rss-reader (src/src/main.rs): the feed-source store commands            *)
(* (add / remove / list on reader.db) and the run path of main, which      *)
(* reads the stored feeds and calls fetch_articles once per feed; each     *)
(* fetch_articles call drives a quick_xml reader over the fetched body and *)
(* assembles Article records from its events.                              *)
(*                                                                         *)
(* The event source (quick_xml::Reader) and the transport (reqwest) are    *)
(* the environment: what read_event_into returns next is a nondeterministic*)
(* choice among the event kinds the loop of fetch_articles matches on.     *)
(***************************************************************************)
EXTENDS Integers, Sequences, FiniteSets, TLC

\* ------------------------------------------------------------------ bounds
\* Start, Text and CData events read_event_into may return during one run of
\* the program (End, Eof, other events and errors are not counted: they can
\* only take away from what the counted events built)
MaxEvents == 4
\* rows read_feeds may return to the run path
MaxSources == 2
\* store commands executed in the store specification
MaxCommands == 4
\* results read_event_into returns for one payload before Event::Eof (the
\* payload is finite; used where every result is counted)
MaxPayload == 3
\* update_field calls applied to one Article in the field specification
MaxApplies == 2

\* ------------------------------------------------------------------ inputs
DateA == "Mon, 01 Jan 2024 00:00:00 +0000"
DateB == "Mon, 01 Jan 2024 02:00:00 +0100"
UrlA == "https://example.com/a"
UrlB == "HTTPS://Example.com"
NotUrl == "not a url"

\* element names a Start event may carry
Names == {"item", "title", "description", "pubDate", "link", "channel"}
\* names Tag::from_str is given in the field specification: the names above and
\* names that differ from a recognised one in case only
RouterNames == Names \cup {"Title", "pubdate", "ITEM", "Link"}
\* decoded contents a Text or CData event may carry
Texts == {"", NotUrl, DateA, UrlA}
CDataTexts == {DateB, UrlB}
\* offsets (seconds east of UTC) Local::now().offset() may yield
LocalOffsets == {0, 3600}
\* values the store commands are given on the command line
Values == {UrlA, UrlB, NotUrl}

\* ------------------------------------------------------------------ Tag
Item == [kind |-> "Item", name |-> ""]
Title == [kind |-> "Title", name |-> ""]
Description == [kind |-> "Description", name |-> ""]
PubDate == [kind |-> "PubDate", name |-> ""]
Link == [kind |-> "Link", name |-> ""]
Other(s) == [kind |-> "Other", name |-> s]

\* from_str comparing the names without regard to case
Tag_from_str_IgnoreCase(s) ==
    CASE s \in {"item", "ITEM"} -> Item
      [] s \in {"title", "Title"} -> Title
      [] s = "description" -> Description
      [] s \in {"pubDate", "pubdate"} -> PubDate
      [] s \in {"link", "Link"} -> Link
      [] OTHER -> Other(s)

\* Tag::from_str, which always returns Ok
Tag_from_str(s) ==
    CASE s = "item" -> Item
      [] s = "title" -> Title
      [] s = "description" -> Description
      [] s = "pubDate" -> PubDate
      [] s = "link" -> Link
      [] OTHER -> Other(s)

\* ------------------------------------------------------------------ Option
None == [some |-> FALSE, secs |-> 0, off |-> 0, url |-> ""]
SomeDate(secs, off) == [some |-> TRUE, secs |-> secs, off |-> off, url |-> ""]
SomeUrl(u) == [some |-> TRUE, secs |-> 0, off |-> 0, url |-> u]

\* DateTime::parse_from_rfc2822 on the date strings of Texts: the instant
\* (seconds since the epoch) and the offset written in the string; every
\* other text of Texts is not an RFC 2822 date.
parse_from_rfc2822(data) ==
    CASE data = DateA -> SomeDate(1704067200, 0)
      [] data = DateB -> SomeDate(1704070800, 3600)
      [] OTHER -> None

\* DateTime::with_timezone: the same instant at another offset
with_timezone(d, tz) == SomeDate(d.secs, tz)

\* Url::parse on the texts of Texts: the serialisation of the parsed URL
\* (scheme and host lower-cased, an empty path written "/"); a text with no
\* scheme is a relative URL without a base, which is an error.
Url_parse(data) ==
    CASE data = UrlA -> SomeUrl("https://example.com/a")
      [] data = UrlB -> SomeUrl("https://example.com/")
      [] OTHER -> None

\* ------------------------------------------------------------------ Article
Article_new == [title |-> "", description |-> "", pub_date |-> None, link |-> None]

\* update_field storing the parse result itself: a failed parse clears the field
update_field_Clears(self, tag, data, tz) ==
    CASE tag = Title -> [self EXCEPT !.title = data]
      [] tag = Description -> [self EXCEPT !.description = data]
      [] tag = PubDate ->
            IF parse_from_rfc2822(data).some
            THEN [self EXCEPT !.pub_date = with_timezone(parse_from_rfc2822(data), tz)]
            ELSE [self EXCEPT !.pub_date = None]
      [] tag = Link -> [self EXCEPT !.link = Url_parse(data)]
      [] OTHER -> self

\* update_field skipping empty texts for title and description
update_field_SkipsEmpty(self, tag, data, tz) ==
    CASE tag = Title /\ data # "" -> [self EXCEPT !.title = data]
      [] tag = Description /\ data # "" -> [self EXCEPT !.description = data]
      [] tag = PubDate /\ parse_from_rfc2822(data).some ->
            [self EXCEPT !.pub_date = with_timezone(parse_from_rfc2822(data), tz)]
      [] tag = Link /\ Url_parse(data).some -> [self EXCEPT !.link = Url_parse(data)]
      [] OTHER -> self

\* update_field whose Description arm assigns self.title
update_field_WrongField(self, tag, data, tz) ==
    CASE tag = Title -> [self EXCEPT !.title = data]
      [] tag = Description -> [self EXCEPT !.title = data]
      [] tag = PubDate /\ parse_from_rfc2822(data).some ->
            [self EXCEPT !.pub_date = with_timezone(parse_from_rfc2822(data), tz)]
      [] tag = Link /\ Url_parse(data).some -> [self EXCEPT !.link = Url_parse(data)]
      [] OTHER -> self

\* update_field keeping the first pub_date and link that parsed
update_field_FirstWins(self, tag, data, tz) ==
    CASE tag = Title -> [self EXCEPT !.title = data]
      [] tag = Description -> [self EXCEPT !.description = data]
      [] tag = PubDate /\ parse_from_rfc2822(data).some /\ ~self.pub_date.some ->
            [self EXCEPT !.pub_date = with_timezone(parse_from_rfc2822(data), tz)]
      [] tag = Link /\ Url_parse(data).some /\ ~self.link.some ->
            [self EXCEPT !.link = Url_parse(data)]
      [] OTHER -> self

\* Article::update_field with the local offset `tz` read by Local::now()
update_field(self, tag, data, tz) ==
    CASE tag = Title -> [self EXCEPT !.title = data]
      [] tag = Description -> [self EXCEPT !.description = data]
      [] tag = PubDate ->
            IF parse_from_rfc2822(data).some
            THEN [self EXCEPT !.pub_date = with_timezone(parse_from_rfc2822(data), tz)]
            ELSE self
      [] tag = Link ->
            IF Url_parse(data).some
            THEN [self EXCEPT !.link = Url_parse(data)]
            ELSE self
      [] OTHER -> self

\* ------------------------------------------------------------------ state
VARIABLES
    \* the run path of main and fetch_articles
    pc,            \* "for_urls", "loop" (inside fetch_articles), "done", "panicked"
    src,           \* fetch_articles calls started by `for url in urls`
    articles,      \* main's `articles` vector
    tag_stack,     \* fetch_articles' tag_stack
    current_item,  \* fetch_articles' current_item
    ev,            \* the result read_event_into returned last
    nread,         \* Start, Text and CData events returned in this run
    \* the document as the events describe it (history, read by the properties only)
    doc,           \* the elements open in the payload: name, and for an item the
                   \* texts its field elements supplied since its own open
    recent,        \* the texts field elements supplied since the latest item open
    closed,        \* per payload, one entry per item element that was closed
    base,          \* Len(articles) when the current fetch_articles call began
    stray,         \* an End event was read while no element was open
    carry,         \* item elements the previous payload left open at its end
    \* the quick_xml reader over the current payload, where every result counts
    reader,        \* left: results it returns before Eof; erred: it returned Err
    \* the field specification: Tag::from_str and update_field applied to inputs
    probe,         \* name, the tag from_str gave it, the Article before and
                   \* after the last update_field call, that call's text
    \* the feed-source store
    db,            \* reader.db: how the feeds table was created, and its rows
    listed,        \* the URLs the last command printed (list)
    status,        \* how the last command ended: "ok", "panic"
    cmd,           \* the last command: its parameter and value
    prev,          \* the rows of the feeds table before the last command
    ncmd           \* commands executed

runVars == <<pc, src, articles, tag_stack, current_item, ev, nread>>
docVars == <<doc, recent, closed, base, stray, carry>>
storeVars == <<db, listed, status, cmd, prev, ncmd>>
vars == <<runVars, docVars, storeVars, reader, probe>>

NoEvent == [type |-> "None", data |-> ""]
Event(t, d) == [type |-> t, data |-> d]

Last(s) == s[Len(s)]
Front(s) == SubSeq(s, 1, Len(s) - 1)

\* ------------------------------------------------------------------ fetch_articles
\* fetch_articles working on a tag_stack and a current_item that outlive the call
FetchBegin_KeepsLocals ==
    /\ pc = "for_urls"
    /\ src < MaxSources
    /\ src' = src + 1
    /\ ev' = NoEvent
    /\ pc' = "loop"
    /\ UNCHANGED <<articles, nread, tag_stack, current_item>>

\* lines 82-94: the body is fetched and the locals are created
FetchBegin ==
    /\ pc = "for_urls"
    /\ src < MaxSources
    /\ src' = src + 1
    /\ tag_stack' = <<>>
    /\ current_item' = Article_new
    /\ ev' = NoEvent
    /\ pc' = "loop"
    /\ UNCHANGED <<articles, nread>>

\* lines 83-86: the request fails, or the body cannot be read
FetchPanic ==
    /\ pc = "for_urls"
    /\ src < MaxSources
    /\ pc' = "panicked"
    /\ UNCHANGED <<src, articles, tag_stack, current_item, ev, nread>>

\* Start flushing the accumulator when the next item opens
ReadStart_Flush(name) ==
    /\ pc = "loop"
    /\ nread < MaxEvents
    /\ ev' = Event("Start", name)
    /\ nread' = nread + 1
    /\ current_item' = IF Tag_from_str(name) = Item THEN Article_new ELSE current_item
    /\ articles' = IF Tag_from_str(name) = Item /\ current_item # Article_new
                   THEN Append(articles, current_item)
                   ELSE articles
    /\ tag_stack' = Append(tag_stack, Tag_from_str(name))
    /\ UNCHANGED <<pc, src>>

\* Start pushing only the tags it classifies
ReadStart_SkipOther(name) ==
    /\ pc = "loop"
    /\ nread < MaxEvents
    /\ ev' = Event("Start", name)
    /\ nread' = nread + 1
    /\ current_item' = IF Tag_from_str(name) = Item THEN Article_new ELSE current_item
    /\ tag_stack' = IF Tag_from_str(name).kind = "Other"
                    THEN tag_stack
                    ELSE Append(tag_stack, Tag_from_str(name))
    /\ UNCHANGED <<pc, src, articles>>

\* Start leaving current_item as it is when an item opens
ReadStart_NoReset(name) ==
    /\ pc = "loop"
    /\ nread < MaxEvents
    /\ ev' = Event("Start", name)
    /\ nread' = nread + 1
    /\ tag_stack' = Append(tag_stack, Tag_from_str(name))
    /\ UNCHANGED <<pc, src, articles, current_item>>

\* Ok(Event::Start(e))
ReadStart(name) ==
    /\ pc = "loop"
    /\ nread < MaxEvents
    /\ ev' = Event("Start", name)
    /\ nread' = nread + 1
    /\ current_item' = IF Tag_from_str(name) = Item THEN Article_new ELSE current_item
    /\ tag_stack' = Append(tag_stack, Tag_from_str(name))
    /\ UNCHANGED <<pc, src, articles>>

\* End emitting on every pop, without the tag == Item test
ReadEnd_EveryClose ==
    /\ pc = "loop"
    /\ ev' = Event("End", "")
    /\ IF tag_stack # <<>>
       THEN /\ tag_stack' = Front(tag_stack)
            /\ articles' = Append(articles, current_item)
       ELSE UNCHANGED <<tag_stack, articles>>
    /\ UNCHANGED <<pc, src, current_item, nread>>

\* End unwrapping the pop: an empty stack panics
ReadEnd_Unwrap ==
    /\ pc = "loop"
    /\ ev' = Event("End", "")
    /\ IF tag_stack # <<>>
       THEN /\ tag_stack' = Front(tag_stack)
            /\ articles' = IF Last(tag_stack) = Item
                           THEN Append(articles, current_item)
                           ELSE articles
            /\ pc' = pc
       ELSE /\ pc' = "panicked"
            /\ UNCHANGED <<tag_stack, articles>>
    /\ UNCHANGED <<src, current_item, nread>>

\* End inserting the Article at the front of articles
ReadEnd_Prepend ==
    /\ pc = "loop"
    /\ ev' = Event("End", "")
    /\ IF tag_stack # <<>>
       THEN /\ tag_stack' = Front(tag_stack)
            /\ articles' = IF Last(tag_stack) = Item
                           THEN <<current_item>> \o articles
                           ELSE articles
       ELSE UNCHANGED <<tag_stack, articles>>
    /\ UNCHANGED <<pc, src, current_item, nread>>

\* Ok(Event::End(_))
ReadEnd ==
    /\ pc = "loop"
    /\ ev' = Event("End", "")
    /\ IF tag_stack # <<>>
       THEN /\ tag_stack' = Front(tag_stack)
            /\ articles' = IF Last(tag_stack) = Item
                           THEN Append(articles, current_item)
                           ELSE articles
       ELSE UNCHANGED <<tag_stack, articles>>
    /\ UNCHANGED <<pc, src, current_item, nread>>

\* Text routed by the innermost open element that has a role of its own,
\* looking past unclassified elements
ReadText_ByAncestor(text) ==
    /\ pc = "loop"
    /\ nread < MaxEvents
    /\ ev' = Event("Text", text)
    /\ nread' = nread + 1
    /\ LET known == {i \in 1..Len(tag_stack) : tag_stack[i].kind # "Other"}
       IN  IF known # {}
           THEN \E tz \in LocalOffsets :
                   current_item' =
                      update_field(current_item,
                                   tag_stack[CHOOSE i \in known : \A j \in known : j <= i],
                                   text, tz)
           ELSE UNCHANGED current_item
    /\ UNCHANGED <<pc, src, articles, tag_stack>>

\* Ok(Event::Text(e))
ReadText(text) ==
    /\ pc = "loop"
    /\ nread < MaxEvents
    /\ ev' = Event("Text", text)
    /\ nread' = nread + 1
    /\ IF tag_stack # <<>>
       THEN \E tz \in LocalOffsets :
               current_item' = update_field(current_item, Last(tag_stack), text, tz)
       ELSE UNCHANGED current_item
    /\ UNCHANGED <<pc, src, articles, tag_stack>>

\* CData with articles holding the accumulator itself instead of a clone: the
\* update shows in the Article appended last
ReadCData_Aliased(text) ==
    /\ pc = "loop"
    /\ nread < MaxEvents
    /\ ev' = Event("CData", text)
    /\ nread' = nread + 1
    /\ IF tag_stack # <<>>
       THEN \E tz \in LocalOffsets :
               /\ current_item' = update_field(current_item, Last(tag_stack), text, tz)
               /\ articles' = IF articles = <<>>
                               THEN articles
                               ELSE [articles EXCEPT ![Len(articles)] = current_item']
       ELSE UNCHANGED <<current_item, articles>>
    /\ UNCHANGED <<pc, src, tag_stack>>

\* Ok(Event::CData(e))
ReadCData(text) ==
    /\ pc = "loop"
    /\ nread < MaxEvents
    /\ ev' = Event("CData", text)
    /\ nread' = nread + 1
    /\ IF tag_stack # <<>>
       THEN \E tz \in LocalOffsets :
               current_item' = update_field(current_item, Last(tag_stack), text, tz)
       ELSE UNCHANGED current_item
    /\ UNCHANGED <<pc, src, articles, tag_stack>>

\* Eof flushing the accumulator of an item that is still open
ReadEof_Flush ==
    /\ pc = "loop"
    /\ ev' = Event("Eof", "")
    /\ pc' = "for_urls"
    /\ articles' = IF \E i \in 1..Len(tag_stack) : tag_stack[i] = Item
                   THEN Append(articles, current_item)
                   ELSE articles
    /\ UNCHANGED <<src, tag_stack, current_item, nread>>

\* Eof without the break: the loop reads again
ReadEof_Continue ==
    /\ pc = "loop"
    /\ ev' = Event("Eof", "")
    /\ UNCHANGED <<pc, src, articles, tag_stack, current_item, nread>>

\* Ok(Event::Eof) => break, and fetch_articles returns
ReadEof ==
    /\ pc = "loop"
    /\ ev' = Event("Eof", "")
    /\ pc' = "for_urls"
    /\ UNCHANGED <<src, articles, tag_stack, current_item, nread>>

\* Event::Empty handled as the open and close of an item element
ReadOther_EmptyAsItem ==
    /\ pc = "loop"
    /\ ev' = Event("Other", "")
    /\ current_item' = Article_new
    /\ articles' = Append(articles, Article_new)
    /\ UNCHANGED <<pc, src, tag_stack, nread>>

\* _ => (): an event of another kind (Empty, Comment, PI, Decl, DocType, ...)
ReadOther ==
    /\ pc = "loop"
    /\ ev' = Event("Other", "")
    /\ UNCHANGED <<pc, src, articles, tag_stack, current_item, nread>>

\* _ => (): the reader returned Err(_)
ReadErr ==
    /\ pc = "loop"
    /\ ev' = Event("Err", "")
    /\ UNCHANGED <<pc, src, articles, tag_stack, current_item, nread>>

\* main, lines 203-209: the urls are exhausted, the articles are printed
Finish ==
    /\ pc = "for_urls"
    /\ pc' = "done"
    /\ UNCHANGED <<src, articles, tag_stack, current_item, ev, nread>>

\* ------------------------------------------------------------------ the document
\* What the events read so far say about the payload, kept beside the
\* program's state and never read by it.  Elements are matched by position:
\* an End event closes the innermost open element (End events are matched on
\* as Event::End(_), without a name).  The texts an item's field elements
\* supplied are kept as the raw texts, NoText while none was accepted.
NoText == "(none)"
NoFields == [title |-> "", description |-> "", pubDate |-> NoText, link |-> NoText,
             n |-> 0, ok |-> 0]

\* reader.db before any command has run: no feeds table
StoreStart ==
    /\ db = [table |-> "none", rows |-> <<>>]
    /\ listed = <<>>
    /\ status = "ok"
    /\ cmd = [op |-> "", value |-> ""]
    /\ prev = <<>>
    /\ ncmd = 0

\* the text `text` observed inside an element called `name`; n counts the
\* texts observed inside title, description, pubDate and link elements, ok
\* those of them that pubDate and link elements accepted
FieldNames == {"title", "description", "pubDate", "link"}
Supply(fields, name, text) ==
    LET f == [fields EXCEPT !.n = IF name \in FieldNames THEN @ + 1 ELSE @]
    IN  CASE name = "title" -> [f EXCEPT !.title = text]
          [] name = "description" -> [f EXCEPT !.description = text]
          [] name = "pubDate" /\ parse_from_rfc2822(text).some ->
                [f EXCEPT !.pubDate = text, !.ok = @ + 1]
          [] name = "link" /\ Url_parse(text).some ->
                [f EXCEPT !.link = text, !.ok = @ + 1]
          [] OTHER -> f

\* the Article `a` holds exactly the field values `fields` describes
Matches(a, fields) ==
    /\ a.title = fields.title
    /\ a.description = fields.description
    /\ a.pub_date.some = (fields.pubDate # NoText)
    /\ fields.pubDate # NoText =>
          /\ a.pub_date.secs = parse_from_rfc2822(fields.pubDate).secs
          /\ a.pub_date.off \in LocalOffsets
    /\ a.link = (IF fields.link = NoText THEN None ELSE Url_parse(fields.link))

ObsBegin ==
    /\ doc' = <<>>
    /\ recent' = NoFields
    /\ closed' = Append(closed, <<>>)
    /\ base' = Len(articles)
    /\ stray' = FALSE
    /\ carry' = Cardinality({i \in 1..Len(doc) : doc[i].name = "item"})

ObsStart(name) ==
    /\ doc' = Append(doc, [name |-> name, own |-> NoFields])
    /\ recent' = IF name = "item" THEN NoFields ELSE recent
    /\ UNCHANGED <<closed, base, stray, carry>>

ObsEnd ==
    IF doc = <<>>
    THEN /\ stray' = TRUE
         /\ UNCHANGED <<doc, recent, closed, base, carry>>
    ELSE /\ doc' = Front(doc)
         /\ closed' = IF Last(doc).name = "item"
                      THEN [closed EXCEPT ![Len(closed)] =
                               Append(@, [own |-> Last(doc).own, recent |-> recent])]
                      ELSE closed
         /\ UNCHANGED <<recent, base, stray, carry>>

ObsText(text) ==
    IF doc = <<>>
    THEN UNCHANGED docVars
    ELSE /\ doc' = [i \in 1..Len(doc) |->
                      IF doc[i].name = "item"
                      THEN [doc[i] EXCEPT !.own = Supply(@, Last(doc).name, text)]
                      ELSE doc[i]]
         /\ recent' = Supply(recent, Last(doc).name, text)
         /\ UNCHANGED <<closed, base, stray, carry>>

\* ------------------------------------------------------------------ the run path
\* main, lines 200-202: read_feeds has returned the stored URLs; how many
\* there are is what FetchBegin and Finish choose (at most MaxSources)
RunStart ==
    /\ pc = "for_urls"
    /\ src = 0
    /\ articles = <<>>
    /\ tag_stack = <<>>
    /\ current_item = Article_new
    /\ ev = NoEvent
    /\ nread = 0
    /\ doc = <<>>
    /\ recent = NoFields
    /\ closed = <<>>
    /\ base = 0
    /\ stray = FALSE
    /\ carry = 0

\* no payload is being read, nothing was given to from_str or update_field
NoProbe == [name |-> "", tag |-> Other(""), classified |-> FALSE,
            was |-> Article_new, self |-> Article_new, data |-> "", n |-> 0]
IdleStart ==
    /\ reader = [left |-> 0, erred |-> FALSE]
    /\ probe = NoProbe

Init == RunStart /\ StoreStart /\ IdleStart

Next ==
    \/ FetchBegin /\ ObsBegin /\ UNCHANGED <<storeVars, reader, probe>>
    \/ FetchPanic /\ UNCHANGED <<docVars, storeVars, reader, probe>>
    \/ \E name \in Names : ReadStart(name) /\ ObsStart(name) /\ UNCHANGED <<storeVars, reader, probe>>
    \/ ReadEnd /\ ObsEnd /\ UNCHANGED <<storeVars, reader, probe>>
    \/ \E text \in Texts : ReadText(text) /\ ObsText(text) /\ UNCHANGED <<storeVars, reader, probe>>
    \/ \E text \in CDataTexts : ReadCData(text) /\ ObsText(text) /\ UNCHANGED <<storeVars, reader, probe>>
    \/ ReadEof /\ UNCHANGED <<docVars, storeVars, reader, probe>>
    \/ ReadOther /\ UNCHANGED <<docVars, storeVars, reader, probe>>
    \/ ReadErr /\ UNCHANGED <<docVars, storeVars, reader, probe>>
    \/ Finish /\ UNCHANGED <<docVars, storeVars, reader, probe>>

Spec == Init /\ [][Next]_vars

\* ------------------------------------------------------------------ finite payloads
\* The run path over payloads of finite length.  Reader::from_str reads a
\* string held in memory: every call of read_event_into, a failing one
\* included, consumes part of it, and once it is consumed the call returns
\* Event::Eof.  reader.left is the number of results before that.
Fetched == reader' \in [left : 0..MaxPayload, erred : {FALSE}]

Returned(kind) ==
    /\ reader.left > 0
    /\ reader' = [left |-> reader.left - 1, erred |-> reader.erred \/ kind = "Err"]

Exhausted ==
    /\ reader.left = 0
    /\ reader' = reader

LiveNext ==
    \/ FetchBegin /\ ObsBegin /\ Fetched /\ UNCHANGED <<storeVars, probe>>
    \/ FetchPanic /\ UNCHANGED <<docVars, storeVars, reader, probe>>
    \/ \E name \in Names :
          ReadStart(name) /\ ObsStart(name) /\ Returned("Start")
              /\ UNCHANGED <<storeVars, probe>>
    \/ ReadEnd /\ ObsEnd /\ Returned("End") /\ UNCHANGED <<storeVars, probe>>
    \/ \E text \in Texts :
          ReadText(text) /\ ObsText(text) /\ Returned("Text")
              /\ UNCHANGED <<storeVars, probe>>
    \/ \E text \in CDataTexts :
          ReadCData(text) /\ ObsText(text) /\ Returned("CData")
              /\ UNCHANGED <<storeVars, probe>>
    \/ ReadEof /\ Exhausted /\ UNCHANGED <<docVars, storeVars, probe>>
    \/ ReadOther /\ Returned("Other") /\ UNCHANGED <<docVars, storeVars, probe>>
    \/ ReadErr /\ Returned("Err") /\ UNCHANGED <<docVars, storeVars, probe>>
    \/ Finish /\ UNCHANGED <<docVars, storeVars, reader, probe>>

\* main is one thread that is never suspended for good: a step it can take is
\* taken (reqwest's blocking get and read_event_into return)
LiveSpec == Init /\ [][LiveNext]_vars /\ WF_vars(LiveNext)

\* ------------------------------------------------------------------ the field functions
\* Tag::from_str and Article::update_field on their own: a name and an Article
\* are drawn, the name is classified, and update_field is applied under the
\* resulting tag to texts drawn from Texts and CDataTexts.
ProbeArticles ==
    {Article_new,
     [title |-> NotUrl, description |-> UrlA,
      pub_date |-> with_timezone(parse_from_rfc2822(DateA), 0),
      link |-> Url_parse(UrlA)]}

FieldInit ==
    /\ RunStart
    /\ StoreStart
    /\ reader = [left |-> 0, erred |-> FALSE]
    /\ \E name \in RouterNames, a \in ProbeArticles :
          probe = [NoProbe EXCEPT !.name = name, !.was = a, !.self = a]

\* Tag::from_str(probe.name)
Classify ==
    /\ ~probe.classified
    /\ probe' = [probe EXCEPT !.tag = Tag_from_str(probe.name), !.classified = TRUE]

\* probe.self.update_field(&probe.tag, data)
Apply(data, tz) ==
    /\ probe.classified
    /\ probe.n < MaxApplies
    /\ probe' = [probe EXCEPT !.was = probe.self,
                              !.self = update_field(probe.self, probe.tag, data, tz),
                              !.data = data,
                              !.n = @ + 1]

FieldNext ==
    \/ Classify /\ UNCHANGED <<runVars, docVars, storeVars, reader>>
    \/ \E data \in Texts \cup CDataTexts, tz \in LocalOffsets :
          Apply(data, tz) /\ UNCHANGED <<runVars, docVars, storeVars, reader>>

FieldSpec == FieldInit /\ [][FieldNext]_vars

\* ------------------------------------------------------------------ the store
\* One action per run of the program with a store command; reader.db keeps
\* the feeds table from one run to the next.  db.table is "none" before any
\* CREATE TABLE, "pk" when read_feeds created it (url TEXT PRIMARY KEY) and
\* "plain" when add or remove created it (url TEXT).  db.rows are the rows in
\* insertion order.
Range(s) == {s[i] : i \in 1..Len(s)}

RECURSIVE Without(_, _)
Without(rows, v) ==
    IF rows = <<>> THEN <<>>
    ELSE IF Head(rows) = v THEN Without(Tail(rows), v)
    ELSE <<Head(rows)>> \o Without(Tail(rows), v)

\* CREATE TABLE IF NOT EXISTS feeds (...)
CreateTable(d, how) == [d EXCEPT !.table = IF @ = "none" THEN how ELSE @]

Began(op, v) ==
    /\ ncmd < MaxCommands
    /\ ncmd' = ncmd + 1
    /\ cmd' = [op |-> op, value |-> v]
    /\ prev' = db.rows

\* read_feeds, lines 132-143, as `list` calls it (lines 154-160)
CmdList ==
    /\ Began("list", "")
    /\ db' = CreateTable(db, "pk")
    /\ IF \A i \in 1..Len(db.rows) : Url_parse(db.rows[i]).some
       THEN /\ listed' = [i \in 1..Len(db.rows) |-> Url_parse(db.rows[i]).url]
            /\ status' = "ok"
       ELSE /\ listed' = <<>>
            /\ status' = "panic"

\* `add value`, lines 165-183
CmdAdd(v) ==
    /\ Began("add", v)
    /\ listed' = <<>>
    /\ IF ~Url_parse(v).some
       THEN /\ status' = "panic"
            /\ db' = db
       ELSE /\ status' = "ok"
            /\ db' = IF CreateTable(db, "plain").table = "pk" /\ v \in Range(db.rows)
                     THEN CreateTable(db, "plain")
                     ELSE [CreateTable(db, "plain") EXCEPT !.rows = Append(@, v)]

\* `remove value`, lines 184-193
CmdRemove(v) ==
    /\ Began("remove", v)
    /\ listed' = <<>>
    /\ status' = "ok"
    /\ db' = [CreateTable(db, "plain") EXCEPT !.rows = Without(@, v)]

\* a parameter that is no command, lines 161 and 195
CmdInvalid ==
    /\ Began("invalid", "")
    /\ listed' = <<>>
    /\ status' = "panic"
    /\ db' = db

\* no parameter: read_feeds at line 200, then the run path (Spec)
CmdRun ==
    /\ Began("run", "")
    /\ listed' = <<>>
    /\ db' = CreateTable(db, "pk")
    /\ status' \in (IF db.rows = <<>> THEN {"ok"} ELSE {"ok", "panic"})

StoreInit == RunStart /\ StoreStart /\ IdleStart

StoreNext ==
    \/ CmdList /\ UNCHANGED <<runVars, docVars, reader, probe>>
    \/ \E v \in Values : CmdAdd(v) /\ UNCHANGED <<runVars, docVars, reader, probe>>
    \/ \E v \in Values : CmdRemove(v) /\ UNCHANGED <<runVars, docVars, reader, probe>>
    \/ CmdInvalid /\ UNCHANGED <<runVars, docVars, reader, probe>>
    \/ CmdRun /\ UNCHANGED <<runVars, docVars, reader, probe>>

StoreSpec == StoreInit /\ [][StoreNext]_vars

\* ------------------------------------------------------------------ properties
IsTextEvent(e) == e.type \in {"Text", "CData"}

\* an item element of the payload is open
ItemOpen == \E i \in 1..Len(doc) : doc[i].name = "item"

\* the item elements closed so far in the payload being read
ClosedHere == IF src = 0 THEN <<>> ELSE closed[src]

\* the item elements closed in all payloads, in source-list order
RECURSIVE Concat(_)
Concat(ss) == IF ss = <<>> THEN <<>> ELSE Head(ss) \o Concat(Tail(ss))

\* C1: the number of Articles a fetch_articles call has appended equals the
\* number of End events read in that call that closed an open item element
\* (balanced item open/close pairs).
C1_ItemCount == Len(articles) - base = Len(ClosedHere)

C1_Witness ==
    /\ pc = "loop"
    /\ Len(ClosedHere) = 2
    /\ ItemOpen
    /\ Len(articles) = 2

\* C2 as stated: every Article a call appended holds all the field updates made
\* between the open of its item element and its close.
C2_Original ==
    \A k \in 1..Len(ClosedHere) :
        /\ base + k <= Len(articles)
        /\ Matches(articles[base + k], ClosedHere[k].own)

\* C2 (amended): articles only changes by the End event that closes an open
\* item element, which appends one Article and leaves the earlier ones in
\* place; the appended Article holds the field updates made since the latest
\* item open before that close.
C2_EmitOnItemClose ==
    [][articles' # articles =>
          /\ pc = "loop"
          /\ ev'.type = "End"
          /\ doc # <<>>
          /\ Last(doc).name = "item"
          /\ Len(articles') = Len(articles) + 1
          /\ SubSeq(articles', 1, Len(articles)) = articles
          /\ Matches(Last(articles'), recent)]_vars

C2_Witness ==
    /\ ev.type = "End"
    /\ ClosedHere # <<>>
    /\ Last(ClosedHere).recent.title = UrlA
    /\ Last(ClosedHere).recent.n = 1
    /\ articles # <<>>
    /\ Last(articles).title = UrlA

\* C3: the step on which fetch_articles returns (Eof) appends nothing, whatever
\* is still open: an item element open at end-of-input adds no Article.
C3_EofNoFlush ==
    [][(pc = "loop" /\ pc' # "loop") =>
          /\ pc' = "for_urls"
          /\ ev'.type = "Eof"
          /\ articles' = articles]_vars

C3_Witness ==
    /\ pc = "for_urls"
    /\ ev.type = "Eof"
    /\ ItemOpen
    /\ recent.n > 0
    /\ Len(articles) = base

\* C4: a text that is no RFC 2822 date, applied under pubDate, and a text that
\* is no URL, applied under link, leave every field of current_item as it
\* was, append nothing and raise no error.
C4_InvalidKeepsField ==
    [][(/\ pc = "loop"
        /\ IsTextEvent(ev')
        /\ tag_stack # <<>>
        /\ \/ Last(tag_stack) = PubDate /\ ~parse_from_rfc2822(ev'.data).some
           \/ Last(tag_stack) = Link /\ ~Url_parse(ev'.data).some)
       => /\ current_item' = current_item
          /\ articles' = articles
          /\ pc' = "loop"]_vars

C4_Witness ==
    /\ ev = Event("Text", NotUrl)
    /\ tag_stack = <<Item, PubDate>>
    /\ recent.n = 2
    /\ current_item.pub_date.some
    /\ current_item.pub_date.secs = 1704067200

C6_Original ==
    stray =>
       /\ pc = "panicked" => ev.type = "Eof"
       /\ Len(articles) - base = Len(ClosedHere)
       /\ \A k \in 1..Len(ClosedHere) :
             /\ base + k <= Len(articles)
             /\ Matches(articles[base + k], ClosedHere[k].own)

\* C6 (amended): in such a payload the parser does not fail, and every closed
\* item is emitted once, with the fields supplied since the latest item open
\* before its close.
C6_StrayCloseTolerated ==
    stray =>
       /\ pc = "panicked" => ev.type = "Eof"
       /\ Len(articles) - base = Len(ClosedHere)
       /\ \A k \in 1..Len(ClosedHere) :
             /\ base + k <= Len(articles)
             /\ Matches(articles[base + k], ClosedHere[k].recent)

C6_Witness ==
    /\ stray
    /\ pc = "for_urls"
    /\ ev.type = "Eof"
    /\ Len(ClosedHere) = 1
    /\ ClosedHere[1].recent.title = UrlA
    /\ Len(articles) = base + 1

\* C7 as stated: once the reader has returned an error, fetch_articles is no
\* longer in its read loop: it has failed.
C7_StopsOnError == ev.type = "Err" => pc = "panicked"

\* C8: articles is the concatenation, in the order the sources were fetched,
\* of the items closed in each source's payload, in the order they closed.
C8_SourceOrder ==
    /\ Len(articles) = Len(Concat(closed))
    /\ \A k \in 1..Len(Concat(closed)) :
          /\ k <= Len(articles)
          /\ Matches(articles[k], Concat(closed)[k].recent)

C8_Witness ==
    /\ pc = "done"
    /\ src = 2
    /\ Len(closed[1]) = 1
    /\ Len(closed[2]) = 1
    /\ Len(articles) = 2
    /\ articles[1].title = UrlA
    /\ articles[2].title = ""

\* C10: an End event read while tag_stack is empty leaves tag_stack,
\* current_item and articles as they were; a Start event makes tag_stack one
\* longer, any other End event one shorter, every other event leaves its
\* length alone; the length is the number of elements open in the payload.
C10_Depth ==
    /\ [](Len(tag_stack) = Len(doc))
    /\ [][pc = "loop" =>
            /\ ev'.type = "Start" => Len(tag_stack') = Len(tag_stack) + 1
            /\ (ev'.type = "End" /\ tag_stack = <<>>) =>
                  /\ tag_stack' = <<>>
                  /\ current_item' = current_item
                  /\ articles' = articles
            /\ (ev'.type = "End" /\ tag_stack # <<>>) =>
                  Len(tag_stack') = Len(tag_stack) - 1
            /\ ev'.type \notin {"Start", "End"} => Len(tag_stack') = Len(tag_stack)]_vars

C10_Witness ==
    /\ pc = "loop"
    /\ ev.type = "End"
    /\ stray
    /\ tag_stack = <<>>
    /\ src = 2
    /\ nread = 1
    /\ Len(closed[1]) = 1
    /\ articles # <<>>

\* C11: whenever fetch_articles is in its read loop over a finite payload, it
\* later reads Event::Eof and returns to main, whatever events and errors the
\* reader returns before the end of the payload.
C11_Terminates == (pc = "loop") ~> (pc = "for_urls" /\ ev.type = "Eof")

C11_Witness ==
    /\ pc = "for_urls"
    /\ ev.type = "Eof"
    /\ reader.erred
    /\ reader.left = 0
    /\ tag_stack # <<>>

\* C12: from_str gives each of the names item, title, description, pubDate
\* and link its own role and no other name that role; every other name, one
\* that differs from a recognised name in case only included, becomes
\* Other carrying the name as it was given.
C12_RouterTotal ==
    probe.classified =>
       /\ probe.tag.kind = "Item" <=> probe.name = "item"
       /\ probe.tag.kind = "Title" <=> probe.name = "title"
       /\ probe.tag.kind = "Description" <=> probe.name = "description"
       /\ probe.tag.kind = "PubDate" <=> probe.name = "pubDate"
       /\ probe.tag.kind = "Link" <=> probe.name = "link"
       /\ probe.tag.kind \in {"Item", "Title", "Description", "PubDate", "Link", "Other"}
       /\ probe.tag.kind = "Other" => probe.tag.name = probe.name

C12_Witness ==
    /\ probe.classified
    /\ probe.name = "pubdate"
    /\ probe.tag.kind = "Other"
    /\ probe.tag.name = "pubdate"

\* C17: an update_field call under Item or Other leaves all four fields of the
\* Article as they were; a call under Title, Description, PubDate or Link
\* leaves the three other fields as they were.
C17_FieldFrame ==
    probe.n > 0 =>
       /\ probe.tag.kind \in {"Item", "Other"} => probe.self = probe.was
       /\ probe.tag.kind # "Title" => probe.self.title = probe.was.title
       /\ probe.tag.kind # "Description" =>
             probe.self.description = probe.was.description
       /\ probe.tag.kind # "PubDate" => probe.self.pub_date = probe.was.pub_date
       /\ probe.tag.kind # "Link" => probe.self.link = probe.was.link

C17_Witness ==
    /\ probe.n = 2
    /\ probe.tag.kind = "Item"
    /\ probe.data = DateB
    /\ probe.self = probe.was
    /\ probe.self.title = NotUrl
    /\ probe.self.pub_date.secs = parse_from_rfc2822(DateA).secs

\* C13 as stated: once the reader has returned an error for a payload, articles
\* holds no Article of that payload, the ones appended before the error
\* included.
C13_NoArticlesOnError == reader.erred => Len(articles) = base

\* every value the Article `a` holds was supplied inside the item whose texts
\* `fields` describes: a field is as Article::new() left it, or holds the
\* last value supplied to it inside the item
FromInside(a, fields) ==
    /\ a.title \in {"", fields.title}
    /\ a.description \in {"", fields.description}
    /\ a.pub_date.some =>
          /\ fields.pubDate # NoText
          /\ a.pub_date.secs = parse_from_rfc2822(fields.pubDate).secs
    /\ a.link.some =>
          /\ fields.link # NoText
          /\ a.link = Url_parse(fields.link)

\* C14: right after an item's Start event current_item is Article::new(), and
\* every Article a call appended holds, in each field, either the value
\* Article::new() gives it or a value supplied between the open and the close
\* of its own item element: nothing supplied at channel level or inside an
\* item closed earlier.
C14_FreshPerItem ==
    /\ ev = Event("Start", "item") => current_item = Article_new
    /\ \A k \in 1..Len(ClosedHere) :
          /\ base + k <= Len(articles)
          /\ FromInside(articles[base + k], ClosedHere[k].own)

C14_Witness ==
    /\ ev.type = "End"
    /\ Len(ClosedHere) = 2
    /\ ClosedHere[1].own.title = UrlA
    /\ ClosedHere[2].own.n = 0
    /\ Len(articles) = base + 2
    /\ articles[base + 1].title = UrlA
    /\ articles[base + 2] = Article_new

\* C15: every step leaves the Articles already in articles in place and as
\* they were: articles after the step is articles before it, or that with
\* Articles appended.
C15_AppendOnly ==
    [][/\ Len(articles') >= Len(articles)
       /\ \A k \in 1..Len(articles) : articles'[k] = articles[k]]_vars

C15_Witness ==
    /\ ev = Event("CData", UrlB)
    /\ tag_stack = <<Title>>
    /\ current_item.title = UrlB
    /\ Len(ClosedHere) = 1
    /\ Len(articles) = base + 1
    /\ Last(articles).title = ""

\* C16: a Text or CData event changes nothing but current_item, and of
\* current_item only the field named by the innermost element open in the
\* payload (the top of tag_stack): title and description take the text, pubDate
\* and link take it when it parses; with no element open, or under an element
\* of another name, current_item stays as it was.
C16_RoutedByTop ==
    [][(pc = "loop" /\ IsTextEvent(ev')) =>
          /\ articles' = articles
          /\ tag_stack' = tag_stack
          /\ IF doc = <<>>
             THEN current_item' = current_item
             ELSE /\ current_item'.title =
                        IF Last(doc).name = "title" THEN ev'.data ELSE current_item.title
                  /\ current_item'.description =
                        IF Last(doc).name = "description"
                        THEN ev'.data
                        ELSE current_item.description
                  /\ Last(doc).name # "pubDate" =>
                        current_item'.pub_date = current_item.pub_date
                  /\ (Last(doc).name = "pubDate" /\ parse_from_rfc2822(ev'.data).some) =>
                        current_item'.pub_date.secs = parse_from_rfc2822(ev'.data).secs
                  /\ Last(doc).name # "link" => current_item'.link = current_item.link
                  /\ (Last(doc).name = "link" /\ Url_parse(ev'.data).some) =>
                        current_item'.link = Url_parse(ev'.data)]_vars

C16_Witness ==
    /\ ev = Event("Text", UrlA)
    /\ tag_stack = <<Item, Title>>
    /\ nread = 4
    /\ recent.n = 1
    /\ current_item.title = UrlA
    /\ current_item.link = None

\* C18: an event that is none of Start, End, Text, CData and Eof (a comment, a
\* processing instruction, a declaration, a doctype, an empty element) leaves
\* tag_stack, current_item and articles as they were and the loop running.
C18_OtherIgnored ==
    [][(pc = "loop" /\ ev'.type = "Other") =>
          /\ tag_stack' = tag_stack
          /\ current_item' = current_item
          /\ articles' = articles
          /\ pc' = "loop"]_vars

C18_Witness ==
    /\ ev.type = "Other"
    /\ pc = "loop"
    /\ tag_stack = <<Item, Title>>
    /\ current_item.title = UrlA
    /\ Len(articles) = base + 1

\* the item elements closed in the payloads read before the current one
EarlierClosed == IF src = 0 THEN <<>> ELSE Concat(SubSeq(closed, 1, src - 1))

\* C19: a fetch_articles call begins with tag_stack empty and current_item as
\* Article::new() gives it; tag_stack holds the roles of the elements open in
\* the payload being read and of no other; while no item element of that
\* payload has been closed the call has appended nothing, whatever the payload
\* before left open; and the Articles of the payloads before are still there,
\* first and unchanged.
C19_IndependentSources ==
    /\ (pc = "loop" /\ ev = NoEvent) =>
          /\ tag_stack = <<>>
          /\ current_item = Article_new
          /\ Len(articles) = base
    /\ Len(tag_stack) = Len(doc)
    /\ \A i \in 1..Len(doc) : i <= Len(tag_stack) /\ tag_stack[i] = Tag_from_str(doc[i].name)
    /\ ClosedHere = <<>> => Len(articles) = base
    /\ base = Len(EarlierClosed)
    /\ \A k \in 1..Len(EarlierClosed) :
          /\ k <= Len(articles)
          /\ Matches(articles[k], EarlierClosed[k].recent)

C19_Witness ==
    /\ src = 2
    /\ carry = 1
    /\ ev.type = "End"
    /\ stray
    /\ tag_stack = <<>>
    /\ base = 1
    /\ Len(articles) = 1

C9_DuplicateAddIsNoop ==
    /\ (cmd.op = "add" /\ cmd.value \in Range(prev)) =>
          /\ status = "ok"
          /\ db.rows = prev
    /\ \A i, j \in 1..Len(listed) : i # j => listed[i] # listed[j]

====
